---- MODULE Spec2Model ----
(***************************************************************************)
(* Model of the backup script of dentabase: getTimestamp, saveBackup and   *)
(* loadBackup, together with the document store and the backup directory   *)
(* they act on.  The repository holds two loadBackup: one that detects     *)
(* inserts, deletes and updates, and the one of src/scripts/backup.js,     *)
(* which detects inserts and deletes only; impl says which one runs.       *)
(* Identifiers are ObjectIds or strings, as the store and JSON give them.  *)
(* Both functions are async: a call is a process that takes one step per   *)
(* awaited operation (the operation's effect, then the synchronous code up *)
(* to the next await), and the steps of the calls in progress interleave.  *)
(*                                                                         *)
(* Values are records [t, v]: t is the JavaScript/BSON type ("oid" for an  *)
(* ObjectId, "str" for a string, "num" for a number) and v the text of the *)
(* value.  A document is a sequence of fields [k, val] in key order, as a  *)
(* JavaScript object is.  An optional value (doc._id, which may be         *)
(* undefined) is a sequence of length 0 or 1.                              *)
(***************************************************************************)
EXTENDS Integers, Sequences, FiniteSets, TLC

\* ------------------------------------------------------------------ bounds

\* Most documents in a live collection and in a collection file of Init.
MaxDocs == 2
\* Most calls of loadBackup in one behaviour; they may overlap.
MaxRuns == 2
\* Most calls of saveBackup in one behaviour; they may overlap each other
\* and the calls of loadBackup.
MaxSaves == 1
\* Most object ids the store generates in one behaviour.
MaxGen == 4

\* ------------------------------------------------------------------ values

Oid(h) == [t |-> "oid", v |-> h]
Str(s) == [t |-> "str", v |-> s]
Num(n) == [t |-> "num", v |-> n]

\* Strings that stand for 24 hexadecimal digits, the text form of an ObjectId.
Hex24 == {"5f1a", "gen1", "gen2", "gen3", "gen4", "gen5", "gen6", "gen7", "gen8"}

\* The ids the store generates, in order.
GenHex == <<"gen1", "gen2", "gen3", "gen4", "gen5", "gen6", "gen7", "gen8">>

Field(k, val) == [k |-> k, val |-> val]

Has(doc, k) == \E i \in 1..Len(doc) : doc[i].k = k

Get(doc, k) == doc[CHOOSE i \in 1..Len(doc) : doc[i].k = k].val

\* doc._id : the value, or undefined (the empty sequence).
IdOf(doc) == IF Has(doc, "_id") THEN <<Get(doc, "_id")>> ELSE <<>>

\* const { _id, ...fields } = doc : the other fields, in the document's order.
Fields(doc) == SelectSeq(doc, LAMBDA f : f.k # "_id")

\* _id?.toString() : an ObjectId gives its hexadecimal text, a string itself.
ToStr(optId) == IF optId = <<>> THEN <<>> ELSE <<optId[1].v>>

\* Boolean(s) of an optional string: undefined and "" are falsy.
Truthy(optStr) == optStr # <<>> /\ optStr[1] # ""

Map(s, Op(_)) == [i \in 1..Len(s) |-> Op(s[i])]

\* Array.prototype.includes
Includes(s, x) == \E i \in 1..Len(s) : s[i] = x

\* data.map(doc => doc._id?.toString()).filter(Boolean)
IdStrings(data) == SelectSeq(Map(data, LAMBDA doc : ToStr(IdOf(doc))), Truthy)

\* ------------------------------------------------------------------ JSON

\* The JSON token a value serialises to: ObjectId.toJSON() is its hexadecimal
\* text, so an ObjectId and the equal string give the same token.
JsonValue(val) == IF val.t = "num" THEN [j |-> "number", s |-> val.v]
                  ELSE [j |-> "string", s |-> val.v]

\* JSON.stringify(doc): the fields in key order with their tokens (the text
\* is determined by, and determines, this sequence).
Stringify(doc) == Map(doc, LAMBDA f : [k |-> f.k, tok |-> JsonValue(f.val)])

\* JSON.parse of one token: JSON has strings and numbers, no ObjectId.
ParseValue(tok) == IF tok.j = "number" THEN Num(tok.s) ELSE Str(tok.s)

ParseDoc(text) == Map(text, LAMBDA f : Field(f.k, ParseValue(f.tok)))

\* fs.writeJson(filePath, data): the text of an array of documents.
WriteJson(data) == Map(data, Stringify)

\* fs.readJson(filePath)
ReadJson(text) == Map(text, ParseDoc)

\* ------------------------------------------------------------------ the diff

\* existingData.find(e => e._id?.toString() === newDoc._id?.toString()):
\* the first match, or undefined.
Find(existingData, newDoc) ==
    LET hits == {i \in 1..Len(existingData) :
                    ToStr(IdOf(existingData[i])) = ToStr(IdOf(newDoc))}
    IN IF hits = {} THEN <<>>
       ELSE <<existingData[CHOOSE i \in hits : \A j \in hits : i <= j]>>

\* newData.filter(doc => !existingIds.includes(doc._id?.toString()))
ToInsert(newD, existingD) ==
    SelectSeq(newD, LAMBDA doc : ~Includes(IdStrings(existingD), ToStr(IdOf(doc))))

\* ToDelete testing against the live identifiers instead of the file's.
ToDeleteWrongIds(newD, existingD) ==
    SelectSeq(existingD, LAMBDA doc : ~Includes(IdStrings(existingD), ToStr(IdOf(doc))))

\* existingData.filter(doc => !newIds.includes(doc._id?.toString()))
ToDelete(newD, existingD) ==
    SelectSeq(existingD, LAMBDA doc : ~Includes(IdStrings(newD), ToStr(IdOf(doc))))

\* match && JSON.stringify(match) !== JSON.stringify(newDoc)
NeedsUpdate(existingD, newDoc) ==
    LET match == Find(existingD, newDoc)
    IN match # <<>> /\ Stringify(match[1]) # Stringify(newDoc)

ToUpdate(newD, existingD) ==
    SelectSeq(newD, LAMBDA newDoc : NeedsUpdate(existingD, newDoc))

\* ------------------------------------------------------------------ the store

\* ObjectId.isValid(_id): an ObjectId, a string of 24 hexadecimal digits, or
\* a number.
ObjectIdIsValid(optId) ==
    /\ optId # <<>>
    /\ \/ optId[1].t = "oid"
       \/ optId[1].t = "num"
       \/ optId[1].t = "str" /\ optId[1].v \in Hex24

\* ObjectId.isValid(_id) ? new ObjectId(_id) : _id
QueryId(optId) == IF ObjectIdIsValid(optId) THEN <<Oid(optId[1].v)>> ELSE optId

\* collection.insertMany(docs), ordered: a document without _id is given a
\* generated ObjectId, a document whose _id is already in the collection is
\* rejected (duplicate key) and ends the call; the documents before it stay.
\* The store keeps _id as the first field of a document.
RECURSIVE InsertMany(_, _, _)
InsertMany(docs, ins, g) ==
    IF ins = <<>> THEN [docs |-> docs, gen |-> g, ok |-> TRUE]
    ELSE LET d == Head(ins)
             hasId == Has(d, "_id")
             id == IF hasId THEN Get(d, "_id") ELSE Oid(GenHex[g + 1])
             stored == <<Field("_id", id)>> \o Fields(d)
             g2 == IF hasId THEN g ELSE g + 1
         IN IF \E i \in 1..Len(docs) : IdOf(docs[i]) = IdOf(stored)
            THEN [docs |-> docs, gen |-> g2, ok |-> FALSE]
            ELSE InsertMany(Append(docs, stored), Tail(ins), g2)

\* The generated ids insertMany(ins) needs.
Generated(ins) == Len(SelectSeq(ins, LAMBDA d : ~Has(d, "_id")))

\* collection.deleteMany({ _id: { $in: ids } }): equality of type and value.
DeleteMany(docs, ids) == SelectSeq(docs, LAMBDA d : ~Includes(ids, IdOf(d)))

\* $set of one field: replaced in place, or added at the end.
SetField(doc, f) ==
    IF Has(doc, f.k)
    THEN [i \in 1..Len(doc) |-> IF doc[i].k = f.k THEN f ELSE doc[i]]
    ELSE Append(doc, f)

RECURSIVE SetFields(_, _)
SetFields(doc, fields) ==
    IF fields = <<>> THEN doc
    ELSE SetFields(SetField(doc, Head(fields)), Tail(fields))

\* The documents a filter { _id: q } matches: equality of type and value (an
\* ObjectId never equals a string).
Matches(docs, q) == {i \in 1..Len(docs) : q # <<>> /\ IdOf(docs[i]) = q}

\* collection.updateOne({ _id: q }, { $set: fields }): the first match, if any.
UpdateOne(docs, q, fields) ==
    IF Matches(docs, q) = {} THEN docs
    ELSE LET i == CHOOSE m \in Matches(docs, q) : \A n \in Matches(docs, q) : m <= n
         IN [docs EXCEPT ![i] = SetFields(docs[i], fields)]

\* ------------------------------------------------------------------ names

\* String(n): the decimal digits, as UTF-16 code units.
RECURSIVE Digits(_)
Digits(n) == IF n < 10 THEN <<48 + n>> ELSE Digits(n \div 10) \o <<48 + (n % 10)>>

\* String(n).padStart(2, '0')
Pad2(n) == IF Len(Digits(n)) >= 2 THEN Digits(n) ELSE <<48>> \o Digits(n)

\* 'backup_'
Prefix == <<98, 97, 99, 107, 117, 112, 95>>

\* getTimestamp() at the local time t = [y, mo, d, h, mi, s], mo = getMonth() + 1.
GetTimestamp(t) ==
    Prefix \o Pad2(t.mo) \o Pad2(t.d) \o Digits(t.y) \o <<95>>
           \o Pad2(t.h) \o Pad2(t.mi) \o Pad2(t.s)

\* name.startsWith('backup_')
StartsWithPrefix(name) ==
    Len(name) >= Len(Prefix) /\ SubSeq(name, 1, Len(Prefix)) = Prefix

\* a < b for strings (and for tuples of numbers): the first differing unit
\* decides, a proper prefix is smaller.
LexLess(a, b) ==
    \E i \in 1..Len(b) :
        /\ \A j \in 1..(i - 1) : j <= Len(a) /\ a[j] = b[j]
        /\ \/ i = Len(a) + 1
           \/ i <= Len(a) /\ a[i] < b[i]

\* backupDirs.sort(); backupDirs[backupDirs.length - 1]
LastSorted(names) == CHOOSE n \in names : \A m \in names : m = n \/ LexLess(m, n)

\* ------------------------------------------------------------------ inputs

\* The collections of the database.
CollNames == <<"patients", "appointments">>

A1 == <<Field("a", Num("1"))>>
A2 == <<Field("a", Num("2"))>>
AB == <<Field("a", Num("1")), Field("b", Num("1"))>>
BA == <<Field("b", Num("1")), Field("a", Num("1"))>>

WithId(id, content) == <<Field("_id", id)>> \o content

\* Live documents: the store gives every document an _id, an ObjectId or a
\* string the application chose (which may itself be 24 hexadecimal digits,
\* or the empty string).
LiveDocs == {WithId(Oid("5f1a"), A1), WithId(Str("5f1a"), AB), WithId(Str(""), A1)}
            \cup {WithId(Str("p1"), c) : c \in {A1, AB}}

\* Documents of a collection file: JSON has no ObjectId, and a file may hold
\* a document without _id.
SnapDocs == {WithId(Str("5f1a"), c) : c \in {A1, A2}}
            \cup {WithId(Str("p1"), c) : c \in {A1, A2, BA}}
            \cup {WithId(Str(""), A1), A1}

SeqsUpTo(S, n) == UNION {[1..m -> S] : m \in 0..n}

\* The store keeps _id unique (type and value).
LiveStores ==
    {s \in SeqsUpTo(LiveDocs, MaxDocs) :
        \A i, j \in 1..Len(s) : i # j => IdOf(s[i]) # IdOf(s[j])}

\* A collection file holds each identifier once.
SnapFiles ==
    {s \in SeqsUpTo(SnapDocs, MaxDocs) :
        \A i, j \in 1..Len(s) : (i # j /\ Has(s[i], "_id")) => IdOf(s[i]) # IdOf(s[j])}

ApptDoc == WithId(Str("A1"), A1)

\* Local times: the last second of a year, the first of the next, a later day.
Instants ==
    { [y |-> 2024, mo |-> 12, d |-> 31, h |-> 23, mi |-> 59, s |-> 59],
      [y |-> 2025, mo |-> 1, d |-> 1, h |-> 0, mi |-> 0, s |-> 0],
      [y |-> 2025, mo |-> 10, d |-> 28, h |-> 2, mi |-> 38, s |-> 11] }

TimeKey(t) == <<t.y, t.mo, t.d, t.h, t.mi, t.s>>

\* t1 is chronologically before t2.
Before(t1, t2) == LexLess(TimeKey(t1), TimeKey(t2))


\* ------------------------------------------------------------------ files

\* A file of a directory. kind says what its text is: "array" (the JSON
\* text of an array of documents), "object" (well-formed JSON that is no
\* array) or "malformed" (no JSON at all).
File(base, ext, kind, text) == [base |-> base, ext |-> ext, kind |-> kind, text |-> text]

JsonFile(base, data) == File(base, ".json", "array", WriteJson(data))

\* The name of a file, as fs.readdir lists it.
Name(f) == [base |-> f.base, ext |-> f.ext]

\* A loop that takes every file of the listing for a collection file.
AnyFile(file) == TRUE

\* path.extname(file) === '.json'
IsCollectionFile(file) == file.ext = ".json"

\* for (let file of files) { if (path.extname(file) !== '.json') continue;
\* the position of the first collection file from position i on, one past
\* the end of the listing when there is none.
NextFile(listing, i) ==
    LET rest == {j \in i..Len(listing) : IsCollectionFile(listing[j])}
    IN IF rest = {} THEN Len(listing) + 1
       ELSE CHOOSE j \in rest : \A k \in rest : j <= k

\* A reader that takes malformed text for what it can make of it.
ReadJsonLenient(file) == FALSE

\* fs.readJson(path) rejects on text that is not well-formed JSON.
ReadJsonRejects(file) == file.kind = "malformed"

\* A file put into a directory listed as fs by fs.writeJson: a file of
\* that name is replaced where it is, a new file appears at position pos
\* of the listing (the order of a listing is the file system's).
PutFile(fs, f, pos) ==
    IF \E i \in 1..Len(fs) : Name(fs[i]) = Name(f)
    THEN [i \in 1..Len(fs) |-> IF Name(fs[i]) = Name(f) THEN f ELSE fs[i]]
    ELSE SubSeq(fs, 1, pos - 1) \o <<f>> \o SubSeq(fs, pos, Len(fs))

\* The positions a file written into fs can take in the listing.
Positions(fs, f) ==
    IF \E i \in 1..Len(fs) : Name(fs[i]) = Name(f) THEN {1} ELSE 1..(Len(fs) + 1)

\* An await whose rejection is swallowed: the function goes on.
AwaitCaught(ok, next) == next

\* await of a call inside loadBackup, which has no try/catch: the function
\* goes on to its next step, or the rejection is thrown out of it.
Await(ok, next) == IF ok THEN next ELSE "throw"

\* The steps of one collection after the diff: the first of insertMany,
\* deleteMany and updateOne (from position u of toUpdate) that the code
\* reaches from stage on, or the report when none is left.
AfterWrites(ti, td, tu, u, stage) ==
    IF stage = "insert" /\ ti # <<>> THEN "insert"
    ELSE IF stage \in {"insert", "delete"} /\ td # <<>> THEN "delete"
    ELSE IF u <= Len(tu) THEN "update"
    ELSE "report"

\* The two loadBackup of the repository: the one that detects updates and
\* the one of src/scripts/backup.js, which only inserts and deletes.
Versions == {"part_000", "backup.js"}

\* The calls of loadBackup and of saveBackup, in the order they are made.
Loads == 1..MaxRuns

Saves == 1..MaxSaves

\* The directory the calls are given, and the one loadBackup takes when it
\* is given none.
BaseDir == "C:/temp/backups"

DefaultDir == "./backup"

\* The argument of loadBackup: none, or the directory.
Args == {<<>>, <<BaseDir>>}

\* ------------------------------------------------------------------ state

VARIABLES
    impl,            \* which loadBackup runs: "part_000" (with updates) or "backup.js"
    live,            \* the database: collection name -> documents, in natural order
    root,            \* the entries of BaseDir: [name, dir, at, files]
    now,             \* the local time
    gen,             \* object ids the store has generated
    lastSave,        \* the directory of the last saveBackup that returned, if it
                     \* ran alone and no call began and nothing was written since
    \* per call of loadBackup
    pc,              \* where the call is: new, readdir, loop, find, insert,
                     \* delete, update, done
    baseDir,         \* the directory it reads
    backupDir,       \* the selected directory's name
    files,           \* its listing: names
    fi,              \* position in the listing
    collectionName, newData, existingData, toInsert, toDelete, toUpdate,
    isArray,         \* whether newData is an array
    ui,              \* position in toUpdate
    result,          \* how the call ended: resolved or rejected
    calls,           \* the store writes it issued
    out,             \* its console.log lines
    reads,           \* the collections it called find() on
    thrown,          \* the error one of its calls rejected with
    caught,          \* the error its caller got
    liveAtStart,     \* the database when it began
    after,           \* lastSave when it began
    alone,           \* no other call was in progress while it ran
    \* per call of saveBackup
    spc,             \* where the call is: new, ensureDir, listCollections, find,
                     \* writeJson, write, done
    timestamp,       \* the name getTimestamp() gave
    madeAt,          \* the local time it was given at
    collections,     \* the collections listed
    ci,              \* position in collections
    data,            \* the documents read of the current collection
    sresult,         \* how the call ended
    salone           \* no other call was in progress while it ran

locals == <<baseDir, backupDir, files, fi, collectionName, newData, existingData,
            toInsert, toDelete, toUpdate, isArray, ui>>

obs == <<result, calls, out, reads, thrown, caught, liveAtStart, after>>

slocals == <<spc, timestamp, madeAt, collections, ci, data, sresult>>

vars == <<impl, live, root, now, gen, lastSave, pc, locals, obs, alone, slocals, salone>>

\* The error of a rejected call: what rejected, and on what (a collection,
\* "baseDir" or "backupDir").
Error(by, on) == [by |-> by, on |-> on]

Call(op, coll, docs, ids, filter, set) ==
    [op |-> op, coll |-> coll, docs |-> docs, ids |-> ids, filter |-> filter, set |-> set]

Line(coll, msg, i, u, d) ==
    [coll |-> coll, msg |-> msg, inserted |-> i, updated |-> u, deleted |-> d]

\* fs.readdir(dir, { withFileTypes: true }): the default directory holds
\* nothing.
Entries(dir) == IF dir = BaseDir THEN root ELSE {}

\* The directory of BaseDir of that name.
Dir(name) == CHOOSE e \in root : e.name = name

\* The file of that directory a listed name stands for.
FileOf(dirName, name) ==
    LET fs == Dir(dirName).files
    IN fs[CHOOSE i \in 1..Len(fs) : Name(fs[i]) = name]

LoadRunning(p) == pc[p] \notin {"new", "done"}

SaveRunning(s) == spc[s] \notin {"new", "done"}

\* No call is in progress.
Quiet == (\A p \in Loads : ~LoadRunning(p)) /\ (\A s \in Saves : ~SaveRunning(s))

\* No call has been made yet.
InitLocals ==
    /\ pc = [p \in Loads |-> "new"]
    /\ baseDir = [p \in Loads |-> ""]
    /\ backupDir = [p \in Loads |-> <<>>]
    /\ files = [p \in Loads |-> <<>>]
    /\ fi = [p \in Loads |-> 0]
    /\ collectionName = [p \in Loads |-> ""]
    /\ newData = [p \in Loads |-> <<>>]
    /\ existingData = [p \in Loads |-> <<>>]
    /\ toInsert = [p \in Loads |-> <<>>]
    /\ toDelete = [p \in Loads |-> <<>>]
    /\ toUpdate = [p \in Loads |-> <<>>]
    /\ isArray = [p \in Loads |-> TRUE]
    /\ ui = [p \in Loads |-> 0]
    /\ result = [p \in Loads |-> ""]
    /\ calls = [p \in Loads |-> <<>>]
    /\ out = [p \in Loads |-> <<>>]
    /\ reads = [p \in Loads |-> <<>>]
    /\ thrown = [p \in Loads |-> <<>>]
    /\ caught = [p \in Loads |-> <<>>]
    /\ after = [p \in Loads |-> <<>>]
    /\ alone = [p \in Loads |-> TRUE]
    /\ spc = [s \in Saves |-> "new"]
    /\ timestamp = [s \in Saves |-> <<>>]
    /\ madeAt = [s \in Saves |-> <<>>]
    /\ collections = [s \in Saves |-> <<>>]
    /\ ci = [s \in Saves |-> 0]
    /\ data = [s \in Saves |-> <<>>]
    /\ sresult = [s \in Saves |-> ""]
    /\ salone = [s \in Saves |-> TRUE]
    /\ gen = 0
    /\ lastSave = <<>>
    /\ impl \in Versions

TestTime == [y |-> 2025, mo |-> 10, d |-> 28, h |-> 2, mi |-> 38, s |-> 11]

\* Orders of a listing of three files: as given and reversed, which puts
\* either collection file before the other.
Orders == {<<1, 2, 3>>, <<3, 2, 1>>}

\* A database and one backup directory, holding a file per collection and a
\* file that is no collection file, listed in one of the orders.
Init ==
    /\ InitLocals
    /\ now = TestTime
    /\ \E lp \in LiveStores :
          live = [c \in {"patients", "appointments"} |->
                     IF c = "patients" THEN lp ELSE <<ApptDoc>>]
    /\ liveAtStart = [p \in Loads |-> live]
    /\ \E sp \in SnapFiles, o \in Orders :
          LET fs == << JsonFile("patients", sp),
                       File("notes", ".txt", "malformed", <<>>),
                       JsonFile("appointments", <<ApptDoc>>) >>
          IN root = { [name |-> GetTimestamp(TestTime), dir |-> TRUE, at |-> TestTime,
                       files |-> [i \in 1..3 |-> fs[o[i]]]] }

\* ------------------------------------------------------------------ loadBackup

\* A call begins: it is alone if no call is in progress, and the calls in
\* progress are alone no more.
Begin(isLoad, q) ==
    /\ alone' = [p \in Loads |->
                    IF isLoad /\ p = q THEN Quiet
                    ELSE IF LoadRunning(p) THEN FALSE ELSE alone[p]]
    /\ salone' = [s \in Saves |->
                    IF ~isLoad /\ s = q THEN Quiet
                    ELSE IF SaveRunning(s) THEN FALSE ELSE salone[s]]

\* How an awaited call leaves loadBackup: on, to the next step (done: the
\* function returns), or out, the error thrown to the caller, who gets it
\* as the call's rejection.
Settle(p, ok, err, next) ==
    LET to == Await(ok, next)
    IN /\ pc' = [pc EXCEPT ![p] = IF to = "throw" THEN "done" ELSE to]
       /\ thrown' = [thrown EXCEPT ![p] = IF ok THEN @ ELSE <<err>>]
       /\ caught' = [caught EXCEPT ![p] = IF to = "throw" THEN <<err>> ELSE @]
       /\ result' = [result EXCEPT ![p] =
                        IF to = "throw" THEN "rejected"
                        ELSE IF to = "done" THEN "resolved" ELSE @]

\* An awaited write of a collection's pass has settled; next is the step
\* the code reaches after it. After the last write the pass is reported
\* and the loop goes to the next collection file, or loadBackup returns.
Finish(p, ok, err, next) ==
    LET nfi == NextFile(files[p], fi[p] + 1)
        reported == next = "report" /\ Await(ok, next) # "throw"
    IN /\ Settle(p, ok, err,
                 IF next # "report" THEN next
                 ELSE IF nfi > Len(files[p]) THEN "done" ELSE "loop")
       /\ out' = [out EXCEPT ![p] =
                     IF reported
                     THEN Append(@, Line(collectionName[p], "Updated", Len(toInsert[p]),
                                         Len(toUpdate[p]), Len(toDelete[p])))
                     ELSE @]
       /\ fi' = [fi EXCEPT ![p] = IF reported THEN nfi ELSE @]

\* loadBackup(arg) up to the end of the first await: the listing of the
\* base directory and the selection of the latest backup directory.
\* rejected: fs.readdir rejects.
LoadStart(p, arg, rejected) ==
    /\ UNCHANGED impl
    /\ pc[p] = "new" /\ (p > 1 => pc[p - 1] # "new")
    /\ Begin(TRUE, p)
    /\ liveAtStart' = [liveAtStart EXCEPT ![p] = live]
    /\ after' = [after EXCEPT ![p] = lastSave]
    /\ lastSave' = <<>>
    /\ LET dir == IF arg = <<>> THEN DefaultDir ELSE arg[1]
           entries == Entries(dir)
           backupDirs == {e.name : e \in {x \in entries : x.dir /\ StartsWithPrefix(x.name)}}
           found == ~rejected /\ backupDirs # {}
       IN /\ baseDir' = [baseDir EXCEPT ![p] = dir]
          /\ Settle(p, ~rejected, Error("readdir", "baseDir"),
                    IF found THEN "readdir" ELSE "done")
          /\ backupDir' = [backupDir EXCEPT ![p] =
                              IF found THEN LastSorted(backupDirs) ELSE @]
          /\ out' = [out EXCEPT ![p] =
                        IF rejected THEN @
                        ELSE IF found THEN <<Line("", "Loading latest backup", 0, 0, 0)>>
                        ELSE <<Line("", "No backups found.", 0, 0, 0)>>]
    /\ UNCHANGED <<live, root, now, gen, files, fi, collectionName, newData,
                   existingData, toInsert, toDelete, toUpdate, isArray, ui,
                   calls, reads, slocals>>

\* const files = await fs.readdir(backupDir), and the loop up to its first
\* collection file.
ListDir(p, rejected) ==
    /\ UNCHANGED impl
    /\ pc[p] = "readdir"
    /\ LET listing == [i \in 1..Len(Dir(backupDir[p]).files) |->
                          Name(Dir(backupDir[p]).files[i])]
           first == NextFile(listing, 1)
       IN /\ files' = [files EXCEPT ![p] = IF rejected THEN @ ELSE listing]
          /\ fi' = [fi EXCEPT ![p] = IF rejected THEN @ ELSE first]
          /\ Settle(p, ~rejected, Error("readdir", "backupDir"),
                    IF rejected \/ first > Len(listing) THEN "done" ELSE "loop")
    /\ UNCHANGED <<live, root, now, gen, lastSave, baseDir, backupDir, collectionName,
                   newData, existingData, toInsert, toDelete, toUpdate, isArray, ui,
                   calls, out, reads, liveAtStart, after, alone, slocals, salone>>

\* One pass of the loop over the files, up to the end of
\* await fs.readJson(...): the file is read as it is now.
LoopFile(p) ==
    /\ UNCHANGED impl
    /\ pc[p] = "loop"
    /\ LET name == files[p][fi[p]]
           file == FileOf(backupDir[p], name)
       IN /\ collectionName' = [collectionName EXCEPT ![p] = name.base]
          /\ newData' = [newData EXCEPT ![p] =
                            IF file.kind = "array" THEN ReadJson(file.text) ELSE <<>>]
          /\ isArray' = [isArray EXCEPT ![p] = file.kind # "object"]
          /\ Settle(p, ~ReadJsonRejects(file), Error("readJson", name.base), "find")
    /\ UNCHANGED <<live, root, now, gen, lastSave, baseDir, backupDir, files, fi,
                   existingData, toInsert, toDelete, toUpdate, ui,
                   calls, out, reads, liveAtStart, after, alone, slocals, salone>>

\* await collection.find().toArray(), the diff and the up-to-date check: a
\* collection with nothing to do is reported up to date. newData that is
\* no array has no map(): a TypeError is thrown after the read.
DoFind(p, rejected) ==
    /\ UNCHANGED impl
    /\ pc[p] = "find"
    /\ LET c == collectionName[p]
           nd == newData[p]
           ed == live[c]
           ti == ToInsert(nd, ed)
           td == ToDelete(nd, ed)
           tu == IF impl = "part_000" THEN ToUpdate(nd, ed) ELSE <<>>
           first == AfterWrites(ti, td, tu, 1, "insert")
           nfi == NextFile(files[p], fi[p] + 1)
           typeError == Error("TypeError", c)
       IN /\ reads' = [reads EXCEPT ![p] = Append(@, c)]
          /\ IF rejected
             THEN /\ Settle(p, FALSE, Error("find", c), "done")
                  /\ UNCHANGED <<existingData, toInsert, toDelete, toUpdate, ui, out, fi>>
             ELSE IF ~isArray[p]
             THEN /\ existingData' = [existingData EXCEPT ![p] = ed]
                  /\ pc' = [pc EXCEPT ![p] = "done"]
                  /\ thrown' = [thrown EXCEPT ![p] = <<typeError>>]
                  /\ caught' = [caught EXCEPT ![p] = <<typeError>>]
                  /\ result' = [result EXCEPT ![p] = "rejected"]
                  /\ UNCHANGED <<toInsert, toDelete, toUpdate, ui, out, fi>>
             ELSE /\ existingData' = [existingData EXCEPT ![p] = ed]
                  /\ toInsert' = [toInsert EXCEPT ![p] = ti]
                  /\ toDelete' = [toDelete EXCEPT ![p] = td]
                  /\ toUpdate' = [toUpdate EXCEPT ![p] = tu]
                  /\ ui' = [ui EXCEPT ![p] = 1]
                  /\ IF first = "report"
                     THEN /\ out' = [out EXCEPT ![p] =
                                        Append(@, Line(c, "up-to-date", 0, 0, 0))]
                          /\ fi' = [fi EXCEPT ![p] = nfi]
                          /\ Settle(p, TRUE, typeError,
                                    IF nfi > Len(files[p]) THEN "done" ELSE "loop")
                     ELSE /\ Settle(p, TRUE, typeError, first)
                          /\ UNCHANGED <<out, fi>>
    /\ UNCHANGED <<live, root, now, gen, lastSave, baseDir, backupDir, files,
                   collectionName, newData, isArray, calls, liveAtStart, after, alone,
                   slocals, salone>>

\* if (toInsert.length > 0) await collection.insertMany(toInsert)
\* rejected: the store rejects the call, which then changes nothing.
DoInsert(p, rejected) ==
    /\ UNCHANGED impl
    /\ pc[p] = "insert"
    /\ gen + Generated(toInsert[p]) <= MaxGen
    /\ LET c == collectionName[p]
           r == IF rejected
                THEN [docs |-> live[c], gen |-> gen, ok |-> FALSE]
                ELSE InsertMany(live[c], toInsert[p], gen)
       IN /\ live' = [live EXCEPT ![c] = r.docs]
          /\ gen' = r.gen
          /\ calls' = [calls EXCEPT ![p] =
                          Append(@, Call("insertMany", c, toInsert[p], <<>>, <<>>, <<>>))]
          /\ Finish(p, r.ok, Error("insertMany", c),
                    AfterWrites(<<>>, toDelete[p], toUpdate[p], 1, "delete"))
    /\ lastSave' = <<>>
    /\ UNCHANGED <<root, now, baseDir, backupDir, files, collectionName, newData,
                   existingData, toInsert, toDelete, toUpdate, isArray, ui,
                   reads, liveAtStart, after, alone, slocals, salone>>

\* if (toDelete.length > 0) await collection.deleteMany({ _id: { $in: deleteIds } })
DoDelete(p, rejected) ==
    /\ UNCHANGED impl
    /\ pc[p] = "delete"
    /\ LET c == collectionName[p]
           deleteIds == Map(toDelete[p], IdOf)
       IN /\ live' = [live EXCEPT ![c] = IF rejected THEN @ ELSE DeleteMany(@, deleteIds)]
          /\ calls' = [calls EXCEPT ![p] =
                          Append(@, Call("deleteMany", c, <<>>, deleteIds, <<>>, <<>>))]
          /\ Finish(p, ~rejected, Error("deleteMany", c),
                    AfterWrites(<<>>, <<>>, toUpdate[p], 1, "update"))
    /\ lastSave' = <<>>
    /\ UNCHANGED <<root, now, gen, baseDir, backupDir, files, collectionName, newData,
                   existingData, toInsert, toDelete, toUpdate, isArray, ui,
                   reads, liveAtStart, after, alone, slocals, salone>>

\* One pass of the loop over toUpdate.
DoUpdate(p, rejected) ==
    /\ UNCHANGED impl
    /\ pc[p] = "update"
    /\ LET c == collectionName[p]
           doc == toUpdate[p][ui[p]]
           queryId == QueryId(IdOf(doc))
       IN /\ live' = [live EXCEPT ![c] =
                         IF rejected THEN @ ELSE UpdateOne(@, queryId, Fields(doc))]
          /\ calls' = [calls EXCEPT ![p] =
                          Append(@, Call("updateOne", c, <<>>, <<>>, queryId, Fields(doc)))]
          /\ Finish(p, ~rejected, Error("updateOne", c),
                    AfterWrites(<<>>, <<>>, toUpdate[p], ui[p] + 1, "update"))
    /\ ui' = [ui EXCEPT ![p] = @ + 1]
    /\ lastSave' = <<>>
    /\ UNCHANGED <<root, now, gen, baseDir, backupDir, files, collectionName, newData,
                   existingData, toInsert, toDelete, toUpdate, isArray,
                   reads, liveAtStart, after, alone, slocals, salone>>

\* A call of loadBackup(BaseDir), none of whose awaited operations is
\* rejected but an insertMany of a duplicate key and a readJson of a file
\* that is being written.
LoadCall(p) ==
    \/ LoadStart(p, <<BaseDir>>, FALSE)
    \/ ListDir(p, FALSE)
    \/ LoopFile(p)
    \/ DoFind(p, FALSE)
    \/ DoInsert(p, FALSE)
    \/ DoDelete(p, FALSE)
    \/ DoUpdate(p, FALSE)

\* The calls of loadBackup.
Load == \E p \in Loads : LoadCall(p)

Next == Load

Spec == Init /\ [][Next]_vars

\* ------------------------------------------------------------------ saveBackup

\* saveBackup(baseDir) up to the call of fs.ensureDir: the name is taken
\* from the local time.
SaveStart(s) ==
    /\ UNCHANGED impl
    /\ spc[s] = "new" /\ (s > 1 => spc[s - 1] # "new")
    /\ Begin(FALSE, s)
    /\ timestamp' = [timestamp EXCEPT ![s] = GetTimestamp(now)]
    /\ madeAt' = [madeAt EXCEPT ![s] = <<now>>]
    /\ spc' = [spc EXCEPT ![s] = "ensureDir"]
    /\ lastSave' = <<>>
    /\ UNCHANGED <<live, root, now, gen, pc, locals, obs, collections, ci, data, sresult>>

\* How an awaited call leaves saveBackup, which has no try/catch either:
\* on to its next step, or out, rejected.
SaveSettle(s, rejected, next) ==
    /\ spc' = [spc EXCEPT ![s] = IF rejected THEN "done" ELSE next]
    /\ sresult' = [sresult EXCEPT ![s] =
                      IF rejected THEN "rejected"
                      ELSE IF next = "done" THEN "resolved" ELSE @]

\* await fs.ensureDir(backupDir): a directory of that name is kept as it
\* is. rejected: fs.ensureDir rejects and saveBackup with it.
EnsureDir(s, rejected) ==
    /\ UNCHANGED impl
    /\ spc[s] = "ensureDir"
    /\ root' = IF rejected \/ \E e \in root : e.name = timestamp[s] THEN root
               ELSE root \cup {[name |-> timestamp[s], dir |-> TRUE,
                                at |-> madeAt[s][1], files |-> <<>>]}
    /\ SaveSettle(s, rejected, "listCollections")
    /\ UNCHANGED <<live, now, gen, lastSave, pc, locals, obs, alone,
                   timestamp, madeAt, collections, ci, data, salone>>

\* await mongoose.connection.db.listCollections().toArray()
ListCollections(s, rejected) ==
    /\ UNCHANGED impl
    /\ spc[s] = "listCollections"
    /\ collections' = [collections EXCEPT ![s] = IF rejected THEN @ ELSE CollNames]
    /\ ci' = [ci EXCEPT ![s] = IF rejected THEN @ ELSE 1]
    /\ SaveSettle(s, rejected, "find")
    /\ UNCHANGED <<live, root, now, gen, lastSave, pc, locals, obs, alone,
                   timestamp, madeAt, data, salone>>

\* const data = await ...collection(coll.name).find().toArray()
SaveFind(s, rejected) ==
    /\ UNCHANGED impl
    /\ spc[s] = "find"
    /\ data' = [data EXCEPT ![s] = IF rejected THEN @ ELSE live[collections[s][ci[s]]]]
    /\ SaveSettle(s, rejected, "writeJson")
    /\ UNCHANGED <<live, root, now, gen, lastSave, pc, locals, obs, alone,
                   timestamp, madeAt, collections, ci, salone>>

\* The file fs.writeJson has opened and not yet written: it is in the
\* listing and holds no text, which is no JSON.
Opened(base) == File(base, ".json", "malformed", <<>>)

\* await fs.writeJson(filePath, data, { spaces: 2 }), first part: the file
\* is opened for writing, which creates it or empties it, and the event
\* loop runs before its text is written. rejected: the file cannot be
\* opened and is left as it was.
SaveOpen(s, rejected) ==
    /\ UNCHANGED impl
    /\ spc[s] = "writeJson"
    /\ LET d == Dir(timestamp[s])
           f == Opened(collections[s][ci[s]])
       IN IF rejected THEN UNCHANGED root
          ELSE \E pos \in Positions(d.files, f) :
                  root' = (root \ {d}) \cup {[d EXCEPT !.files = PutFile(d.files, f, pos)]}
    /\ SaveSettle(s, rejected, "write")
    /\ UNCHANGED <<live, now, gen, lastSave, pc, locals, obs, alone,
                   timestamp, madeAt, collections, ci, data, salone>>

\* fs.writeJson, second part: the text is written and the await ends;
\* after the last collection saveBackup returns the directory. rejected:
\* the write fails and the file is left without its text.
SaveWrite(s, rejected) ==
    /\ UNCHANGED impl
    /\ spc[s] = "write"
    /\ LET d == Dir(timestamp[s])
           f == JsonFile(collections[s][ci[s]], data[s])
           last == ci[s] = Len(collections[s])
       IN /\ root' = IF rejected THEN root
                     ELSE (root \ {d}) \cup {[d EXCEPT !.files = PutFile(d.files, f, 1)]}
          /\ ci' = [ci EXCEPT ![s] = IF rejected THEN @ ELSE @ + 1]
          /\ SaveSettle(s, rejected, IF last THEN "done" ELSE "find")
          /\ lastSave' = IF ~rejected /\ last /\ salone[s] THEN <<timestamp[s]>> ELSE lastSave
    /\ UNCHANGED <<live, now, gen, pc, locals, obs, alone,
                   timestamp, madeAt, collections, data, salone>>

\* The calls of saveBackup(BaseDir), any of whose awaited operations may
\* be rejected.
SaveBackup ==
    \E s \in Saves :
        \/ SaveStart(s)
        \/ \E rejected \in BOOLEAN : EnsureDir(s, rejected)
        \/ \E rejected \in BOOLEAN : ListCollections(s, rejected)
        \/ \E rejected \in BOOLEAN : SaveFind(s, rejected)
        \/ \E rejected \in BOOLEAN : SaveOpen(s, rejected)
        \/ \E rejected \in BOOLEAN : SaveWrite(s, rejected)

\* The clock moves on.
Tick ==
    /\ UNCHANGED impl
    /\ \E t \in Instants : Before(now, t) /\ now' = t
    /\ UNCHANGED <<live, root, gen, lastSave, pc, locals, obs, alone, slocals, salone>>

\* The files of a backup directory made earlier: the patients of that
\* time and a file that is no collection file.
Earlier ==
    << JsonFile("patients", <<WithId(Str("p1"), A2)>>),
       File("notes", ".txt", "malformed", <<>>) >>

\* A database and a backup root that is empty or holds one backup
\* directory, made within the second the clock shows.
InitSave ==
    /\ InitLocals
    /\ now \in Instants
    /\ \E lp \in LiveStores :
          live = [c \in {"patients", "appointments"} |->
                     IF c = "patients" THEN lp ELSE <<ApptDoc>>]
    /\ liveAtStart = [p \in Loads |-> live]
    /\ \/ root = {}
       \/ root = { [name |-> GetTimestamp(now), dir |-> TRUE, at |-> now,
                    files |-> Earlier] }

\* The clock, the calls of saveBackup and one call of loadBackup.
NextSave == Tick \/ SaveBackup \/ LoadCall(1)

SpecSave == InitSave /\ [][NextSave]_vars

\* ------------------------------------------------------------------ failures

\* The calls of loadBackup, with or without a directory, any of whose
\* awaited operations may be rejected.
LoadFault ==
    \E p \in Loads :
        \/ \E arg \in Args, rejected \in BOOLEAN : LoadStart(p, arg, rejected)
        \/ \E rejected \in BOOLEAN : ListDir(p, rejected)
        \/ LoopFile(p)
        \/ \E rejected \in BOOLEAN : DoFind(p, rejected)
        \/ \E rejected \in BOOLEAN : DoInsert(p, rejected)
        \/ \E rejected \in BOOLEAN : DoDelete(p, rejected)
        \/ \E rejected \in BOOLEAN : DoUpdate(p, rejected)

\* Entries of the root that are no backup directory: a directory without
\* the prefix ('uploads') and a file with it ('backup_z'). The directory
\* holds collection files that would empty the database.
Others ==
    { [name |-> <<117, 112, 108, 111, 97, 100, 115>>, dir |-> TRUE, at |-> TestTime,
       files |-> <<JsonFile("patients", <<>>), JsonFile("appointments", <<>>)>>],
      [name |-> Prefix \o <<122>>, dir |-> FALSE, at |-> TestTime, files |-> <<>>] }

\* Listings of a backup directory whose patients file holds sp: both files
\* well-formed, in either order; the second one malformed; the first one
\* malformed; the first one no array; and no collection file for
\* appointments but a file of another extension.
Listings(sp) ==
    { <<JsonFile("patients", sp), JsonFile("appointments", <<>>)>>,
      <<JsonFile("appointments", <<>>), JsonFile("patients", sp)>>,
      <<JsonFile("patients", sp), File("appointments", ".json", "malformed", <<>>)>>,
      <<File("patients", ".json", "malformed", <<>>), JsonFile("appointments", <<>>)>>,
      <<File("patients", ".json", "object", <<>>), JsonFile("appointments", <<>>)>>,
      <<JsonFile("patients", sp), File("appointments", ".bak", "array", WriteJson(<<>>))>> }

\* The identifiers of the failure runs: a string and the empty string.
FaultIds == {<<Str("p1")>>, <<Str("")>>}

\* The patients collections and patients files of the failure runs: the
\* documents differ in their identifiers and in the value of one field, and
\* a document of a file may have no identifier.
FaultStores ==
    {s \in LiveStores :
        \A i \in 1..Len(s) : Fields(s[i]) = A1 /\ IdOf(s[i]) \in FaultIds}

FaultFiles ==
    {s \in SnapFiles :
        \A i \in 1..Len(s) :
            Fields(s[i]) \in {A1, A2} /\ IdOf(s[i]) \in FaultIds \cup {<<>>}}

\* A database with both collections, and a root with no backup directory
\* or with one.
InitFault ==
    /\ InitLocals
    /\ now = TestTime
    /\ \E lp \in FaultStores :
          live = [c \in {"patients", "appointments"} |->
                     IF c = "patients" THEN lp ELSE <<ApptDoc>>]
    /\ liveAtStart = [p \in Loads |-> live]
    /\ \/ root = Others
       \/ \E sp \in FaultFiles : \E l \in Listings(sp) :
             root = Others \cup { [name |-> GetTimestamp(TestTime), dir |-> TRUE,
                                   at |-> TestTime, files |-> l] }

NextFault == LoadFault

SpecFault == InitFault /\ [][NextFault]_vars

\* ------------------------------------------------------------------ claims

\* Call p has ended the pass over a collection, and its locals still hold
\* what that pass read and computed: it waits for the next collection file
\* or has returned, and its last line reports the collection.
Done(p) ==
    /\ pc[p] \in {"loop", "done"}
    /\ collectionName[p] # ""
    /\ out[p] # <<>> /\ out[p][Len(out[p])].coll = collectionName[p]

\* Call p has begun, no other call was in progress while it ran, and no
\* call of loadBackup has begun since: what the database holds is what the
\* calls up to p left.
Undisturbed(p) ==
    pc[p] # "new" /\ alone[p] /\ \A q \in Loads : q > p => pc[q] = "new"

Range(s) == {s[i] : i \in 1..Len(s)}

\* The string forms of the identifiers of a document set.
StrIds(docs) == {ToStr(IdOf(d))[1] : d \in {x \in Range(docs) : Has(x, "_id")}}

\* Every document has an identifier and no two share its string form.
UniqueIds(docs) ==
    /\ \A i \in 1..Len(docs) : Has(docs[i], "_id")
    /\ \A i, j \in 1..Len(docs) : i # j => ToStr(IdOf(docs[i])) # ToStr(IdOf(docs[j]))

\* The non-identifier content of a document, as a mapping.
Content(doc) == {<<f.k, JsonValue(f.val)>> : f \in Range(Fields(doc))}

\* The calls of one kind call p issued on its current collection.
CallsOf(p, op) ==
    SelectSeq(calls[p], LAMBDA c : c.op = op /\ c.coll = collectionName[p])

Count(s, Test(_)) == Cardinality({i \in 1..Len(s) : Test(s[i])})

\* C1: once a loadBackup that nothing ran beside has reconciled a collection
\* whose file and live set hold only documents with unique identifiers, the
\* live collection equals the file's document set: the same identifiers,
\* and under each identifier exactly the imported non-identifier fields (a
\* field only the live document had is gone).
C1_LiveEqualsSnapshot ==
    \A p \in Loads :
        (Done(p) /\ Undisturbed(p) /\ UniqueIds(newData[p]) /\ UniqueIds(existingData[p])) =>
            LET now_ == live[collectionName[p]]
            IN /\ StrIds(now_) = StrIds(newData[p])
               /\ \A d \in Range(now_), n \in Range(newData[p]) :
                     ToStr(IdOf(d)) = ToStr(IdOf(n)) => Content(d) = Content(n)

\* C2: an identifier in both sets whose non-identifier content differs gets
\* exactly one updateOne on that collection, filtered on that identifier,
\* with $set exactly the imported non-identifier fields, and takes no part
\* in insertMany or deleteMany.
C2_OneUpdatePerChangedDoc ==
    \A p \in Loads :
        (Done(p) /\ UniqueIds(newData[p]) /\ UniqueIds(existingData[p])) =>
            \A n \in Range(newData[p]), e \in Range(existingData[p]) :
                (ToStr(IdOf(n)) = ToStr(IdOf(e)) /\ Content(n) # Content(e)) =>
                    /\ Count(CallsOf(p, "updateOne"),
                             LAMBDA c : ToStr(c.filter) = ToStr(IdOf(n))) = 1
                    /\ \A c \in Range(CallsOf(p, "updateOne")) :
                          ToStr(c.filter) = ToStr(IdOf(n)) => c.set = Fields(n)
                    /\ \A c \in Range(CallsOf(p, "insertMany")) : ~Includes(c.docs, n)
                    /\ \A c \in Range(CallsOf(p, "deleteMany")) : ~Includes(c.ids, IdOf(e))

\* C2, of the loadBackup that detects updates alone.
C2_OneUpdateWhereDetected ==
    impl = "part_000" => C2_OneUpdatePerChangedDoc

\* C2 witness: a collection with a changed document has been reconciled and
\* its update issued.
C2_Witness ==
    \E p \in Loads :
        /\ Done(p) /\ UniqueIds(newData[p]) /\ UniqueIds(existingData[p])
        /\ \E n \in Range(newData[p]), e \in Range(existingData[p]) :
              ToStr(IdOf(n)) = ToStr(IdOf(e)) /\ Content(n) # Content(e)
        /\ CallsOf(p, "updateOne") # <<>>

\* C3: a document whose identifier is only in the file, not in the live set
\* as loadBackup read it, is passed to one insertMany call, once and
\* verbatim; and no document whose identifier is in that live set is passed
\* to insertMany, whether the store accepts the call or not.
C3_InsertsExactlyTheMissing ==
    \A p \in Loads :
        /\ Done(p) =>
              /\ Len(CallsOf(p, "insertMany")) <= 1
              /\ \A n \in Range(newData[p]) :
                    (Has(n, "_id") /\ ToStr(IdOf(n))[1] \notin StrIds(existingData[p])) =>
                        /\ Len(CallsOf(p, "insertMany")) = 1
                        /\ Count(CallsOf(p, "insertMany")[1].docs, LAMBDA d : d = n) = 1
        /\ \A c \in Range(CallsOf(p, "insertMany")) : \A d \in Range(c.docs) :
              Has(d, "_id") => ToStr(IdOf(d))[1] \notin StrIds(existingData[p])

\* C3, of the calls that read no live document whose identifier is the empty
\* string.
C3_WhereNoIdentifierIsEmpty ==
    \A p \in Loads :
        "" \notin StrIds(existingData[p]) =>
            /\ Done(p) =>
                  /\ Len(CallsOf(p, "insertMany")) <= 1
                  /\ \A n \in Range(newData[p]) :
                        (Has(n, "_id") /\ ToStr(IdOf(n))[1] \notin StrIds(existingData[p])) =>
                            /\ Len(CallsOf(p, "insertMany")) = 1
                            /\ Count(CallsOf(p, "insertMany")[1].docs, LAMBDA d : d = n) = 1
            /\ \A c \in Range(CallsOf(p, "insertMany")) : \A d \in Range(c.docs) :
                  Has(d, "_id") => ToStr(IdOf(d))[1] \notin StrIds(existingData[p])

\* C3 witness: a reconciled collection whose file held a document with an
\* identifier the live set lacked, beside one the live set had.
C3_Witness ==
    \E p \in Loads :
        /\ Done(p)
        /\ \E n \in Range(newData[p]) :
              Has(n, "_id") /\ ToStr(IdOf(n))[1] \notin StrIds(existingData[p])
        /\ \E n \in Range(newData[p]) :
              Has(n, "_id") /\ ToStr(IdOf(n))[1] \in StrIds(existingData[p])
        /\ CallsOf(p, "insertMany") # <<>>

\* C4: an identifier only in the live set as loadBackup read it is in the
\* identifier list of one deleteMany call, once; no identifier of the file
\* is passed to deleteMany; with an empty file every live document is
\* deleted and nothing is inserted or updated.
C4_DeletesExactlyTheExtra ==
    \A p \in Loads :
        Done(p) =>
            /\ Len(CallsOf(p, "deleteMany")) <= 1
            /\ \A e \in Range(existingData[p]) :
                  ToStr(IdOf(e))[1] \notin StrIds(newData[p]) =>
                      /\ Len(CallsOf(p, "deleteMany")) = 1
                      /\ Count(CallsOf(p, "deleteMany")[1].ids, LAMBDA i : i = IdOf(e)) = 1
            /\ \A c \in Range(CallsOf(p, "deleteMany")) : \A i \in Range(c.ids) :
                  ToStr(i)[1] \notin StrIds(newData[p])
            /\ (newData[p] = <<>> /\ existingData[p] # <<>>) =>
                  /\ live[collectionName[p]] = <<>>
                  /\ CallsOf(p, "insertMany") = <<>>
                  /\ CallsOf(p, "updateOne") = <<>>

\* C4 witness: a reconciled collection whose live set held a document the
\* file lacked, beside one the file had.
C4_Witness ==
    \E p \in Loads :
        /\ Done(p)
        /\ \E e \in Range(existingData[p]) : ToStr(IdOf(e))[1] \notin StrIds(newData[p])
        /\ \E e \in Range(existingData[p]) : ToStr(IdOf(e))[1] \in StrIds(newData[p])
        /\ CallsOf(p, "deleteMany") # <<>>

\* C4 (Scenario C): an empty file against a live set that is not empty.
C4_WitnessEmptyFile ==
    \E p \in Loads :
        /\ Done(p) /\ newData[p] = <<>> /\ existingData[p] # <<>>
        /\ CallsOf(p, "deleteMany") # <<>>

\* C5: when every identifier is in both sets with the same non-identifier
\* content, whatever the order of the keys, nothing is classified, the
\* collection is reported up to date and no store write is issued on it.
C5_IdenticalSetsNoWrites ==
    \A p \in Loads :
        (/\ Done(p) /\ UniqueIds(newData[p]) /\ UniqueIds(existingData[p])
         /\ StrIds(newData[p]) = StrIds(existingData[p])
         /\ \A n \in Range(newData[p]), e \in Range(existingData[p]) :
               ToStr(IdOf(n)) = ToStr(IdOf(e)) => Content(n) = Content(e)) =>
            /\ toInsert[p] = <<>> /\ toUpdate[p] = <<>> /\ toDelete[p] = <<>>
            /\ out[p][Len(out[p])] = Line(collectionName[p], "up-to-date", 0, 0, 0)
            /\ \A i \in 1..Len(calls[p]) : calls[p][i].coll # collectionName[p]

\* C6: a loadBackup that follows one that succeeded, against the same
\* backup, neither of them with another call in progress and with no
\* other change to the store, issues no insertMany, no updateOne and no
\* deleteMany.
C6_SecondRunIssuesNothing ==
    \A p \in Loads :
        (/\ p > 1 /\ alone[p - 1] /\ alone[p]
         /\ result[p - 1] = "resolved" /\ result[p] = "resolved"
         /\ baseDir[p - 1] = baseDir[p]) =>
            calls[p] = <<>>

\* C7: a loadBackup that follows a saveBackup, neither of them with
\* another call in progress and with no change to the store in between,
\* and reads the directory that saveBackup wrote, issues no store write.
C7_RoundTripIssuesNothing ==
    \A p \in Loads :
        (/\ pc[p] # "new" /\ alone[p]
         /\ after[p] # <<>> /\ backupDir[p] = after[p][1]) =>
            calls[p] = <<>>

\* C8: a backup made at an earlier second has the lexicographically smaller
\* name, so the directory a loadBackup selects, no saveBackup being in
\* progress, is the one made last.
C8_NamesOrderChronologically ==
    /\ \A e1, e2 \in root : Before(e1.at, e2.at) => LexLess(e1.name, e2.name)
    /\ \A p \in Loads :
          (pc[p] = "readdir" /\ alone[p]) =>
              \A e \in root : e = Dir(backupDir[p]) \/ Before(e.at, Dir(backupDir[p]).at)

\* C9: a document without _id, of the file or of the live set, is in none of
\* toInsert, toUpdate and toDelete, so it reaches no store call; and no
\* identifier is in two of the three sets.
C9_NoIdentifierNoClassification ==
    \A p \in Loads :
        (pc[p] \in {"insert", "delete", "update"} \/ Done(p)) =>
            /\ \A d \in Range(toInsert[p]) \cup Range(toUpdate[p]) \cup Range(toDelete[p]) :
                  Has(d, "_id")
            /\ \A c \in Range(calls[p]) :
                  /\ \A d \in Range(c.docs) : Has(d, "_id")
                  /\ \A i \in Range(c.ids) : i # <<>>
                  /\ c.op = "updateOne" => c.filter # <<>>
            /\ StrIds(toInsert[p]) \cap StrIds(toUpdate[p]) = {}
            /\ StrIds(toInsert[p]) \cap StrIds(toDelete[p]) = {}
            /\ StrIds(toUpdate[p]) \cap StrIds(toDelete[p]) = {}

\* C10: the identifier in the filter of each updateOne is, in type and
\* value, the identifier of the live document the imported one was matched
\* with, so the update matches exactly one document of the live set read.
C10_FilterIsLiveIdentifier ==
    \A p \in Loads :
        (pc[p] = "update" \/ Done(p)) =>
            \A i \in 1..Len(CallsOf(p, "updateOne")) :
                LET c == CallsOf(p, "updateOne")[i]
                    match == Find(existingData[p], toUpdate[p][i])
                IN /\ c.filter = IdOf(match[1])
                   /\ Cardinality(Matches(existingData[p], c.filter)) = 1

\* The effect of a write the store accepted is still in the database: the
\* inserted documents that came with an identifier are there as inserted,
\* nothing the delete matched is back, the update's fields are as set.
StillApplied(c) ==
    /\ c.op = "insertMany" =>
           \A d \in {x \in Range(c.docs) : Has(x, "_id")} : Includes(live[c.coll], d)
    /\ c.op = "deleteMany" => DeleteMany(live[c.coll], c.ids) = live[c.coll]
    /\ c.op = "updateOne" => UpdateOne(live[c.coll], c.filter, c.set) = live[c.coll]

\* The writes loadBackup issues.
Writes == {"insertMany", "deleteMany", "updateOne"}

\* C11: when the store rejects an insertMany, deleteMany or updateOne of a
\* loadBackup, the call ends there, rejected with the store's error as it
\* was; the rejected write is the last one the call issued and was issued
\* once (no later step, no later collection, no retry), and, nothing else
\* having run, what the writes before it did is still in the database.
C11_RejectionEndsTheRun ==
    \A p \in Loads :
        (thrown[p] # <<>> /\ thrown[p][1].by \in Writes) =>
            /\ pc[p] = "done" /\ result[p] = "rejected"
            /\ caught[p] = thrown[p]
            /\ calls[p] # <<>>
            /\ calls[p][Len(calls[p])].op = thrown[p][1].by
            /\ calls[p][Len(calls[p])].coll = thrown[p][1].on
            /\ \A i \in 1..(Len(calls[p]) - 1) :
                  /\ calls[p][i] # calls[p][Len(calls[p])]
                  /\ Undisturbed(p) => StillApplied(calls[p][i])

\* A deleteMany was rejected after an insertMany that had been applied,
\* with an update still to do and a collection file still to come.
C11_Witness ==
    \E p \in Loads :
        /\ thrown[p] = <<Error("deleteMany", "patients")>>
        /\ Undisturbed(p)
        /\ Len(calls[p]) = 2 /\ calls[p][1].op = "insertMany"
        /\ Len(live["patients"]) > Len(liveAtStart[p]["patients"])
        /\ toUpdate[p] # <<>>
        /\ fi[p] < Len(files[p]) /\ files[p][fi[p] + 1].ext = ".json"
        /\ FileOf(backupDir[p], files[p][fi[p] + 1]).kind = "array"

\* The collection file at position i of the listing of call p is malformed.
Malformed(p, i) ==
    files[p][i].ext = ".json" /\ FileOf(backupDir[p], files[p][i]).kind = "malformed"

\* C12: a malformed collection file ends loadBackup when the loop reaches
\* it: the call is rejected with the error of the read, the loop never gets
\* past the file, the call neither reads nor writes the store for the
\* file's collection nor for the collection of any file after it in the
\* listing, and, nothing else having run, what it wrote for the
\* collections before it is still there.
C12_MalformedFileEndsTheRun ==
    \A p \in Loads : \A i \in 1..Len(files[p]) : Malformed(p, i) =>
        /\ fi[p] <= i
        /\ \A j \in i..Len(files[p]) :
              /\ ~Includes(reads[p], files[p][j].base)
              /\ \A k \in 1..Len(calls[p]) : calls[p][k].coll # files[p][j].base
        /\ (fi[p] = i /\ pc[p] = "done") =>
              /\ thrown[p] = <<Error("readJson", files[p][i].base)>>
              /\ caught[p] = thrown[p]
              /\ result[p] = "rejected"
              /\ Undisturbed(p) => \A k \in 1..Len(calls[p]) : StillApplied(calls[p][k])

\* The file of appointments, the second of the listing, was malformed:
\* the call was rejected after patients had been read and written.
C12_Witness ==
    \E p \in Loads :
        /\ pc[p] = "done" /\ fi[p] = 2 /\ Malformed(p, 2)
        /\ caught[p] = <<Error("readJson", "appointments")>>
        /\ reads[p] = <<"patients">>
        /\ calls[p] # <<>>
        /\ Undisturbed(p)
        /\ live["patients"] # liveAtStart[p]["patients"]
        /\ live["appointments"] = <<ApptDoc>>

\* C13: loadBackup writes only to collections that have a .json file in
\* the selected directory: every write of a call is on such a collection
\* and, nothing else having run, every other collection is as it was when
\* the call began; and a call whose listing of the base directory shows no
\* directory with the backup_ prefix reads and writes nothing in the store,
\* reports that, and resolves.
C13_OnlyCollectionsWithAFile ==
    \A p \in Loads :
        /\ \A k \in 1..Len(calls[p]) :
              \E i \in 1..Len(files[p]) :
                  files[p][i].ext = ".json" /\ files[p][i].base = calls[p][k].coll
        /\ Undisturbed(p) =>
              \A c \in DOMAIN live :
                  (~\E i \in 1..Len(files[p]) :
                        files[p][i].ext = ".json" /\ files[p][i].base = c) =>
                      live[c] = liveAtStart[p][c]
        /\ (/\ pc[p] # "new" /\ thrown[p] = <<>>
            /\ {e \in Entries(baseDir[p]) : e.dir /\ StartsWithPrefix(e.name)} = {}) =>
              /\ pc[p] = "done" /\ result[p] = "resolved"
              /\ calls[p] = <<>> /\ reads[p] = <<>>
              /\ out[p] = <<Line("", "No backups found.", 0, 0, 0)>>
              /\ caught[p] = <<>>
              /\ Undisturbed(p) => live = liveAtStart[p]

\* A call has resolved that wrote to patients from a directory holding no
\* .json file for appointments, only a file of that name with another
\* extension that holds no document; appointments still has its document.
C13_Witness ==
    \E p \in Loads :
        /\ pc[p] = "done" /\ result[p] = "resolved"
        /\ Undisturbed(p)
        /\ \E k \in 1..Len(calls[p]) : calls[p][k].coll = "patients"
        /\ \E i \in 1..Len(files[p]) :
              files[p][i].base = "appointments" /\ files[p][i].ext # ".json"
        /\ ~\E i \in 1..Len(files[p]) :
              files[p][i].base = "appointments" /\ files[p][i].ext = ".json"
        /\ live["appointments"] = <<ApptDoc>>

====
